---- MODULE Spec2Model ----
(***************************************************************************)
(* Verification model of yoto-up's JSON-backed settings store              *)
(* (src/core/yoto_up/storage/config.py, class AppSettings).                *)
(*                                                                         *)
(* The state is the backing file SETTINGS_FILE as the store observes it    *)
(* (its parent directory, its accessibility, its content), plus a record   *)
(* of the last call made by the single caller: operation, arguments,       *)
(* returned value, whether an exception reached the caller, and the file   *)
(* system as it was when the call started.                                 *)
(*                                                                         *)
(* Environment assumption: a process that may write the file may also read *)
(* it back (no write-only permission bits), and nothing but the actions    *)
(* below touches the file.                                                 *)
(***************************************************************************)
EXTENDS Integers, Sequences, FiniteSets, TLC

VARIABLES dirExists, locked, file, op, arg, ret, raised, before, lastSet, stale

\* two callers of set() that share the file: where each is in set(), the
\* key and value it sets, the settings it loaded, the updates saved by the
\* other since it loaded, whether its call raised, and the last save made
VARIABLES pc, job, loaded, missed, cRaised, lastSave

\* the toast manager: the managed list _toasts (toast ids, oldest first),
\* what became of each toast, and whose auto-dismiss timer is running
VARIABLES toasts, tState, tTimer

\* the shortcut overlay: whether it is visible, its geometry and its
\* parent's size, its fade animation and opacity, the last event it
\* handled and whether it was visible when the event arrived
VARIABLES ovVisible, ovGeometry, parentSize, ovFade, ovOpacity, ovEvent, ovWas

\* whether the overlay's close button is held down
VARIABLES ovCloseDown

\* the card editor page: the title field of its form, whether a client and
\* a toast callback were provided, and the fields _editing_card,
\* _cover_image_path, _dirty, _populating; whether the Save button is enabled
VARIABLES title, client, toastCallback, editingCard, coverImagePath, dirty,
          populating, saveEnabled

\* the save workers started so far, the signals queued for the UI thread,
\* the open "Unsaved Changes" dialog, the card_saved emissions so far and
\* the record of the last step of the page
VARIABLES workers, uiQueue, dialog, cardSaved, ui

\* what the form went through since it was last populated: the call that
\* populated it (new_card or edit_card) and the card it loaded, whether the
\* user chose a cover image since, and whether the user changed the form
\* since it was populated or last submitted
VARIABLES since

\* the record of the single caller's calls
callVars == <<op, arg, ret, raised, before, lastSet, stale>>

\* the state of the concurrent callers
concVars == <<pc, job, loaded, missed, cRaised, lastSave>>

toastVars == <<toasts, tState, tTimer>>

overlayVars ==
  <<ovVisible, ovGeometry, parentSize, ovFade, ovOpacity, ovEvent, ovWas,
    ovCloseDown>>

fieldVars == <<title, editingCard, coverImagePath, dirty, populating>>

formVars == <<fieldVars, since>>

editorVars ==
  <<formVars, client, toastCallback, saveEnabled, workers, uiQueue, dialog,
    cardSaved, ui>>

\* the widgets of the GUI
guiVars == <<toastVars, overlayVars, editorVars>>

\* the settings store, its file and its callers
storeVars == <<dirExists, locked, file, callVars, concVars>>

vars == <<storeVars, guiVars>>

(***************************************************************************)
(* Bounds                                                                  *)
(***************************************************************************)
\* largest number of keys in a mapping handed to save() or written by
\* another program
MaxKeysS == 2

\* number of toasts shown in a run
MaxShown == 7

\* number of saves started in a run
MaxSaves == 2

(***************************************************************************)
(* Python values.  A float is modelled by its integral value n, read n.0.  *)
(***************************************************************************)
PyNone == [t |-> "NoneType"]
PyBool(b) == [t |-> "bool", b |-> b]
PyInt(n) == [t |-> "int", i |-> n]
PyFloat(n) == [t |-> "float", f |-> n]
PyStr(s) == [t |-> "str", s |-> s]
PyList(s) == [t |-> "list", items |-> s]
PyDict(m) == [t |-> "dict", d |-> m]

\* the mapping with no keys
EmptyMap == [k \in {} |-> PyNone]

(***************************************************************************)
(* _DEFAULTS                                                               *)
(***************************************************************************)
DefaultKeys == {"debug", "cache_enabled", "cache_max_age", "audio_target_lufs"}

\* mutant of Defaults: the loudness target is the integer -16
DefaultsIntLufs ==
  [k \in DefaultKeys |->
     CASE k = "debug" -> PyBool(FALSE)
       [] k = "cache_enabled" -> PyBool(FALSE)
       [] k = "cache_max_age" -> PyInt(0)
       [] k = "audio_target_lufs" -> PyInt(-16)]

Defaults ==
  [k \in DefaultKeys |->
     CASE k = "debug" -> PyBool(FALSE)
       [] k = "cache_enabled" -> PyBool(FALSE)
       [] k = "cache_max_age" -> PyInt(0)
       [] k = "audio_target_lufs" -> PyFloat(-16)]

\* keys outside the default set: one that an earlier run persisted, one
\* that callers add
CustomKeys == {"custom_key", "new_custom_key"}

Keys == DefaultKeys \cup CustomKeys

\* keys callers pass to set() and put in mappings given to save()
InputKeys == {"debug", "cache_max_age", "new_custom_key"}

\* values callers pass to set() and put in mappings given to save()
InputVals == {PyInt(120), PyStr("x")}

\* the default arguments callers pass to get()
GetDefaults == {PyNone, PyInt(0)}

(***************************************************************************)
(* JSON text, as json.dumps writes it and json.loads reads it.  A document *)
(* is the tree of tokens of the text; the order of an object's members is  *)
(* not modelled.  A number token keeps its integer part and whether the    *)
(* text has a fraction part (".0").                                        *)
(***************************************************************************)
JLiteral(s) == [j |-> "literal", lit |-> s]
JNumber(n, p) == [j |-> "number", int |-> n, point |-> p]
JString(s) == [j |-> "string", chars |-> s]
JArray(s) == [j |-> "array", elements |-> s]
JObject(m) == [j |-> "object", members |-> m]

RECURSIVE EncodeBoolAsNumber(_)
\* mutant of EncodeValue: a bool is written as the integer it subclasses
EncodeBoolAsNumber(o) ==
  CASE o.t = "NoneType" -> JLiteral("null")
    [] o.t = "bool" -> JNumber(IF o.b THEN 1 ELSE 0, FALSE)
    [] o.t = "int" -> JNumber(o.i, FALSE)
    [] o.t = "float" -> JNumber(o.f, TRUE)
    [] o.t = "str" -> JString(o.s)
    [] o.t = "list" ->
         JArray([n \in DOMAIN o.items |-> EncodeBoolAsNumber(o.items[n])])
    [] o.t = "dict" -> JObject([k \in DOMAIN o.d |-> EncodeBoolAsNumber(o.d[k])])

RECURSIVE EncodeFloatAsInt(_)
\* mutant of EncodeValue: a float with no fraction is written without ".0"
EncodeFloatAsInt(o) ==
  CASE o.t = "NoneType" -> JLiteral("null")
    [] o.t = "bool" -> JLiteral(IF o.b THEN "true" ELSE "false")
    [] o.t = "int" -> JNumber(o.i, FALSE)
    [] o.t = "float" -> JNumber(o.f, FALSE)
    [] o.t = "str" -> JString(o.s)
    [] o.t = "list" ->
         JArray([n \in DOMAIN o.items |-> EncodeFloatAsInt(o.items[n])])
    [] o.t = "dict" -> JObject([k \in DOMAIN o.d |-> EncodeFloatAsInt(o.d[k])])

RECURSIVE EncodeValue(_)
\* json.dumps: Python value to JSON document
EncodeValue(o) ==
  CASE o.t = "NoneType" -> JLiteral("null")
    [] o.t = "bool" -> JLiteral(IF o.b THEN "true" ELSE "false")
    [] o.t = "int" -> JNumber(o.i, FALSE)
    [] o.t = "float" -> JNumber(o.f, TRUE)
    [] o.t = "str" -> JString(o.s)
    [] o.t = "list" -> JArray([n \in DOMAIN o.items |-> EncodeValue(o.items[n])])
    [] o.t = "dict" -> JObject([k \in DOMAIN o.d |-> EncodeValue(o.d[k])])

RECURSIVE DecodeValue(_)
\* json.loads: JSON document to Python value
DecodeValue(d) ==
  CASE d.j = "literal" ->
         (CASE d.lit = "null" -> PyNone
            [] d.lit = "true" -> PyBool(TRUE)
            [] d.lit = "false" -> PyBool(FALSE))
    [] d.j = "number" -> IF d.point THEN PyFloat(d.int) ELSE PyInt(d.int)
    [] d.j = "string" -> PyStr(d.chars)
    [] d.j = "array" ->
         PyList([n \in DOMAIN d.elements |-> DecodeValue(d.elements[n])])
    [] d.j = "object" ->
         PyDict([k \in DOMAIN d.members |-> DecodeValue(d.members[k])])

\* file texts: a JSON document, or text that is not JSON
JsonText(d) == [k |-> "json", doc |-> d]
InvalidText(s) == [k |-> "invalid", chars |-> s]

JsonDumps(o) == JsonText(EncodeValue(o))

\* the exceptions the store's calls can raise; NoExc: none was raised
NoExc == "none"

\* json.loads(text): the parsed value, or a raised JSONDecodeError
JsonLoads(text) ==
  IF text.k = "json"
    THEN [exc |-> NoExc, value |-> DecodeValue(text.doc)]
    ELSE [exc |-> "JSONDecodeError", value |-> PyNone]

(***************************************************************************)
(* The backing file                                                        *)
(***************************************************************************)
NoText == InvalidText("")
MissingFile == [st |-> "missing", text |-> NoText]
\* a file whose bytes read_text() cannot decode
UndecodableFile == [st |-> "undecodable", text |-> NoText]
RegularFile(text) == [st |-> "regular", text |-> text]

\* the file system as the store sees it: whether the parent directory
\* exists, whether access to the path is denied, and the file
FileSystem(d, l, f) == [dirExists |-> d, locked |-> l, file |-> f]

Fs == FileSystem(dirExists, locked, file)

\* SETTINGS_FILE.exists()
Exists(fs) == fs.file.st # "missing"

\* SETTINGS_FILE.read_text(): the text, or a raised error
ReadText(fs) ==
  CASE fs.locked -> [exc |-> "PermissionError", text |-> NoText]
    [] ~fs.locked /\ fs.file.st = "undecodable" ->
         [exc |-> "UnicodeDecodeError", text |-> NoText]
    [] OTHER -> [exc |-> NoExc, text |-> fs.file.text]

\* isinstance(data, dict)
IsDict(data) == data.t = "dict"

\* mutant of Update: the file's entries replace the defaults
UpdateReplace(settings, data) == data

\* mutant of Update: entries already present are kept
UpdateKeepExisting(settings, data) ==
  [k \in DOMAIN settings \cup DOMAIN data |->
     IF k \in DOMAIN settings THEN settings[k] ELSE data[k]]

\* dict.update: the entries of data overwrite or extend those of settings
Update(settings, data) ==
  [k \in DOMAIN settings \cup DOMAIN data |->
     IF k \in DOMAIN data THEN data[k] ELSE settings[k]]

\* mutant of SetItem: settings.setdefault(key, value)
SetItemIfAbsent(settings, key, value) ==
  [k \in DOMAIN settings \cup {key} |->
     IF k \in DOMAIN settings THEN settings[k] ELSE value]

\* settings[key] = value
SetItem(settings, key, value) ==
  [k \in DOMAIN settings \cup {key} |-> IF k = key THEN value ELSE settings[k]]

\* dict.get(key, default)
DictGet(settings, key, default) ==
  IF key \in DOMAIN settings THEN settings[key] ELSE default

\* mutant of Caught: except json.JSONDecodeError
CaughtJsonOnly(exc) == exc = "JSONDecodeError"

\* except Exception: every error of the try block is caught
Caught(exc) == TRUE

\* dict.update with any parsed value: a mapping or a list of [key, value]
\* pairs is merged, anything else raises
UpdateFromAny(settings, data) ==
  LET isPairs == /\ data.t = "list"
                 /\ \A n \in DOMAIN data.items :
                      /\ data.items[n].t = "list"
                      /\ Len(data.items[n].items) = 2
                      /\ data.items[n].items[1].t = "str"
      pairs == [k \in {data.items[n].items[1].s : n \in DOMAIN data.items} |->
                  LET n == CHOOSE m \in DOMAIN data.items :
                             data.items[m].items[1].s = k
                  IN  data.items[n].items[2]]
  IN  CASE data.t = "dict" ->
             [exc |-> NoExc, settings |-> Update(settings, data.d)]
        [] data.t # "dict" /\ isPairs ->
             [exc |-> NoExc, settings |-> Update(settings, pairs)]
        [] OTHER -> [exc |-> "TypeError", settings |-> settings]

\* mutant of LoadTry: no isinstance(data, dict) test before the update
LoadTryNoIsinstance(fs) ==
  IF ~Exists(fs)
    THEN [exc |-> NoExc, settings |-> Defaults]
    ELSE LET r == ReadText(fs)
             p == JsonLoads(r.text)
         IN  CASE r.exc # NoExc -> [exc |-> r.exc, settings |-> Defaults]
               [] r.exc = NoExc /\ p.exc # NoExc ->
                    [exc |-> p.exc, settings |-> Defaults]
               [] OTHER -> UpdateFromAny(Defaults, p.value)

\* the try block of load(): the settings built so far and the exception
\* that ended the block, if any
LoadTry(fs) ==
  IF ~Exists(fs)
    THEN [exc |-> NoExc, settings |-> Defaults]
    ELSE LET r == ReadText(fs)
             p == JsonLoads(r.text)
         IN  CASE r.exc # NoExc -> [exc |-> r.exc, settings |-> Defaults]
               [] r.exc = NoExc /\ p.exc # NoExc ->
                    [exc |-> p.exc, settings |-> Defaults]
               [] OTHER ->
                    [exc |-> NoExc,
                     settings |-> IF IsDict(p.value)
                                    THEN Update(Defaults, p.value.d)
                                    ELSE Defaults]

\* AppSettings.load(): the returned mapping, and whether an exception
\* reaches the caller
LoadCall(fs) ==
  LET b == LoadTry(fs)
  IN  [raised |-> b.exc # NoExc /\ ~Caught(b.exc), settings |-> b.settings]

\* ensure_parents(SETTINGS_FILE): creates the missing parent directory
EnsureParents(fs) ==
  CASE fs.dirExists -> [raised |-> FALSE, fs |-> fs]
    [] ~fs.dirExists /\ fs.locked -> [raised |-> TRUE, fs |-> fs]
    [] OTHER -> [raised |-> FALSE, fs |-> [fs EXCEPT !.dirExists = TRUE]]

\* mutant of WriteText: an object is merged into the object already there
WriteTextPatch(fs, text) ==
  LET old == fs.file.text
      patch == fs.file.st = "regular" /\ old.k = "json" /\ text.k = "json"
                 /\ old.doc.j = "object" /\ text.doc.j = "object"
      merged == [k \in DOMAIN old.doc.members \cup DOMAIN text.doc.members |->
                   IF k \in DOMAIN text.doc.members
                     THEN text.doc.members[k] ELSE old.doc.members[k]]
  IN  IF fs.locked \/ ~fs.dirExists
        THEN [raised |-> TRUE, fs |-> fs]
        ELSE [raised |-> FALSE,
              fs |-> [fs EXCEPT !.file =
                        RegularFile(IF patch THEN JsonText(JObject(merged))
                                    ELSE text)]]

\* SETTINGS_FILE.write_text(text): the file holds text and nothing else
WriteText(fs, text) ==
  IF fs.locked \/ ~fs.dirExists
    THEN [raised |-> TRUE, fs |-> fs]
    ELSE [raised |-> FALSE, fs |-> [fs EXCEPT !.file = RegularFile(text)]]

\* mutant of SaveCall: the parent directory is not created
SaveCallNoEnsure(fs, settings) == WriteText(fs, JsonDumps(PyDict(settings)))

\* mutant of SaveCall: a failure to write is swallowed
SaveCallSwallow(fs, settings) ==
  LET e == EnsureParents(fs)
      w == WriteText(e.fs, JsonDumps(PyDict(settings)))
  IN  IF e.raised THEN [raised |-> FALSE, fs |-> fs]
      ELSE [raised |-> FALSE, fs |-> w.fs]

\* AppSettings.save(settings)
SaveCall(fs, settings) ==
  LET e == EnsureParents(fs)
  IN  IF e.raised THEN e ELSE WriteText(e.fs, JsonDumps(PyDict(settings)))

\* mutant of GetCall: the settings loaded by the previous call are reused
GetCallCached(fs, key, default) ==
  LET l == LoadCall(before)
  IN  [raised |-> l.raised, value |-> DictGet(l.settings, key, default)]

\* AppSettings.get(key, default)
GetCall(fs, key, default) ==
  LET l == LoadCall(fs)
  IN  [raised |-> l.raised, value |-> DictGet(l.settings, key, default)]

\* mutant of SetCall: the key is saved alone, without the loaded settings
SetCallNoLoad(fs, key, value) == SaveCall(fs, SetItem(EmptyMap, key, value))

\* mutant of SetCall: the file's own entries are saved, not the merged ones
SetCallUnmerged(fs, key, value) ==
  LET p == JsonLoads(ReadText(fs).text)
      own == IF Exists(fs) /\ ReadText(fs).exc = NoExc /\ p.exc = NoExc
                  /\ IsDict(p.value)
               THEN p.value.d ELSE EmptyMap
  IN  SaveCall(fs, SetItem(own, key, value))

\* AppSettings.set(key, value)
SetCall(fs, key, value) ==
  LET l == LoadCall(fs)
  IN  IF l.raised
        THEN [raised |-> TRUE, fs |-> fs]
        ELSE SaveCall(fs, SetItem(l.settings, key, value))

(***************************************************************************)
(* Inputs                                                                  *)
(***************************************************************************)
\* the mappings with at most n keys
Mappings(keys, vals, n) ==
  UNION {[K -> vals] : K \in {X \in SUBSET keys : Cardinality(X) <= n}}

\* mappings callers hand to save()
SettingsInputs == Mappings(InputKeys, InputVals, MaxKeysS)

\* the example file of the specification
ExampleFile ==
  [k \in DefaultKeys \cup {"custom_key"} |->
     CASE k = "debug" -> PyBool(TRUE)
       [] k = "cache_enabled" -> PyBool(TRUE)
       [] k = "cache_max_age" -> PyInt(3600)
       [] k = "audio_target_lufs" -> PyFloat(-14)
       [] k = "custom_key" -> PyStr("preserved")]

\* an object whose values are not of the documented types
OddFile ==
  [k \in {"debug", "custom_key"} |->
     IF k = "debug" THEN PyList(<<PyInt(1), PyInt(2), PyInt(3)>>) ELSE PyNone]

\* a JSON array of [key, value] pairs: [["debug", true]]
PairsFile == PyList(<<PyList(<<PyStr("debug"), PyBool(TRUE)>>)>>)

\* texts other programs or the user leave in the file
ExternalTexts ==
  {InvalidText(""), InvalidText("not valid json")}
    \cup {JsonDumps(o) :
            o \in {PyList(<<PyInt(1), PyInt(2), PyInt(3)>>), PairsFile,
                   PyStr("x"), PyInt(7), PyBool(TRUE), PyNone}}
    \cup {JsonDumps(PyDict(m)) : m \in {EmptyMap, ExampleFile, OddFile}}

\* the files the store can find
ExternalFiles ==
  {MissingFile, UndecodableFile} \cup {RegularFile(x) : x \in ExternalTexts}

(***************************************************************************)
(* State                                                                   *)
(***************************************************************************)
NotSet == [t |-> "unset"]
NoneSet == [k \in InputKeys |-> NotSet]
NoArg == [S |-> EmptyMap, key |-> "", val |-> PyNone]
\* stale: the key and the result of the get() that came right before the
\* file was last changed from outside, kept until the call after the next
NoStale == [key |-> "", ret |-> PyNone]

\* the single caller has made no call yet
CallInit ==
  /\ op = "init"
  /\ arg = NoArg
  /\ ret = PyNone
  /\ raised = FALSE
  /\ before = Fs
  /\ lastSet = NoneSet
  /\ stale = NoStale

\* the concurrent callers of set()
Callers == {"A", "B"}

NoJob == [key |-> "", val |-> PyNone]
NoSave == [who |-> "", written |-> EmptyMap, dropped |-> {}]

\* no concurrent caller has entered set()
ConcInit ==
  /\ pc = [c \in Callers |-> "idle"]
  /\ job = [c \in Callers |-> NoJob]
  /\ loaded = [c \in Callers |-> EmptyMap]
  /\ missed = [c \in Callers |-> {}]
  /\ cRaised = [c \in Callers |-> FALSE]
  /\ lastSave = NoSave

(***************************************************************************)
(* The widgets as constructed                                              *)
(***************************************************************************)
\* _MAX_TOASTS
MaxToasts == 5

ToastIds == 1 .. MaxShown

\* ToastManager.__init__: self._toasts = []
ToastInit ==
  /\ toasts = <<>>
  /\ tState = [t \in ToastIds |-> "unused"]
  /\ tTimer = [t \in ToastIds |-> FALSE]

\* sizes of the overlay's parent window
ParentSizes ==
  {[w |-> 800, h |-> 600], [w |-> 1024, h |-> 768], [w |-> 1280, h |-> 720]}

\* the geometry of a child widget that was never laid out
UnsetGeometry == [w |-> 100, h |-> 30]

NoEvent == [kind |-> "init"]

\* ShortcutOverlay.__init__: opacity 0.0, then self.hide()
OverlayInit ==
  /\ ovVisible = FALSE
  /\ ovGeometry = UnsetGeometry
  /\ parentSize \in ParentSizes
  /\ ovFade = "stopped"
  /\ ovOpacity = 0
  /\ ovEvent = NoEvent
  /\ ovWas = FALSE
  /\ ovCloseDown = FALSE

\* self._editing_card = None
NoCard == [none |-> TRUE]

\* no "Unsaved Changes" dialog is open
NoDialog == [open |-> FALSE]

\* the form was populated by new_card()
SinceNewCard ==
  [by |-> "new_card", cardId |-> "", cover |-> "", coverChosen |-> FALSE,
   changed |-> FALSE]

\* CardEditorPage.__init__, which ends with new_card()
EditorInit ==
  /\ title = ""
  /\ client = FALSE
  /\ toastCallback = FALSE
  /\ editingCard = NoCard
  /\ coverImagePath = ""
  /\ dirty = FALSE
  /\ populating = FALSE
  /\ saveEnabled = TRUE
  /\ workers = <<>>
  /\ uiQueue = <<>>
  /\ dialog = NoDialog
  /\ cardSaved = <<>>
  /\ ui = [h |-> "init"]
  /\ since = SinceNewCard

\* no caller has touched the settings store and its file does not exist
StoreAtRest ==
  /\ dirExists = FALSE
  /\ locked = FALSE
  /\ file = MissingFile
  /\ CallInit
  /\ ConcInit

Init ==
  /\ dirExists \in BOOLEAN
  /\ locked = FALSE
  /\ file \in IF dirExists THEN ExternalFiles ELSE {MissingFile}
  /\ CallInit
  /\ ConcInit
  /\ ToastInit
  /\ OverlayInit
  /\ parentSize = [w |-> 800, h |-> 600]
  /\ EditorInit

\* the outcome of a call is recorded for the caller
Called(o, a, r, x) ==
  /\ op' = o
  /\ arg' = a
  /\ ret' = r
  /\ raised' = x
  /\ before' = Fs
  /\ stale' = CASE o = "env" /\ op = "get" /\ ~raised ->
                    [key |-> arg.key, ret |-> ret]
                [] o = "get" /\ op = "env" -> stale
                [] OTHER -> NoStale
  /\ UNCHANGED <<concVars, guiVars>>

Installed(fs) ==
  /\ dirExists' = fs.dirExists
  /\ locked' = fs.locked
  /\ file' = fs.file

\* settings = AppSettings.load()
Load ==
  LET l == LoadCall(Fs)
  IN  /\ Called("load", NoArg, IF l.raised THEN PyNone ELSE PyDict(l.settings),
                l.raised)
      /\ UNCHANGED <<dirExists, locked, file, lastSet>>

\* mappings the caller has at hand: its own, or the one load() just returned
SaveInputs ==
  SettingsInputs \cup (IF op = "load" /\ ~raised THEN {ret.d} ELSE {})

\* AppSettings.save(S)
Save ==
  \E S \in SaveInputs :
    LET s == SaveCall(Fs, S)
    IN  /\ Called("save", [NoArg EXCEPT !.S = S], PyNone, s.raised)
        /\ Installed(s.fs)
        /\ lastSet' = NoneSet

\* AppSettings.get(key, default)
Get ==
  \E key \in Keys, default \in GetDefaults :
    LET g == GetCall(Fs, key, default)
    IN  /\ Called("get", [NoArg EXCEPT !.key = key, !.val = default],
                  IF g.raised THEN PyNone ELSE g.value, g.raised)
        /\ UNCHANGED <<dirExists, locked, file, lastSet>>

\* AppSettings.set(key, value)
Set ==
  \E key \in InputKeys, value \in InputVals :
    LET s == SetCall(Fs, key, value)
    IN  /\ Called("set", [NoArg EXCEPT !.key = key, !.val = value], PyNone,
                  s.raised)
        /\ Installed(s.fs)
        /\ lastSet' = IF s.raised THEN NoneSet
                      ELSE [lastSet EXCEPT ![key] = value]

\* another program or the user replaces, damages or deletes the file, or
\* removes the directory
FileChanged ==
  /\ ~locked
  /\ \E d \in BOOLEAN :
       \E f \in IF d THEN ExternalFiles ELSE {MissingFile} :
         /\ <<d, f>> # <<dirExists, file>>
         /\ Installed(FileSystem(d, FALSE, f))
  /\ Called("env", NoArg, PyNone, FALSE)
  /\ lastSet' = NoneSet

\* access to the path is denied or granted again
PermissionsChanged ==
  /\ locked' = ~locked
  /\ UNCHANGED <<dirExists, file>>
  /\ Called("env", NoArg, PyNone, FALSE)
  /\ lastSet' = NoneSet

Next ==
  \/ Load
  \/ Save
  \/ Get
  \/ Set
  \/ FileChanged
  \/ PermissionsChanged

Spec == Init /\ [][Next]_vars

(***************************************************************************)
(* Two callers in set() at once.  set() is three statements with no lock   *)
(* around them: each caller's load and its save are separate steps, and    *)
(* the steps of the two callers interleave in any order.                   *)
(***************************************************************************)
\* mutant of Modified: the settings are loaded again when they are saved
ModifiedReloaded(c) == SetItem(LoadCall(Fs).settings, job[c].key, job[c].val)

\* settings[key] = value on the settings the caller loaded
Modified(c) == SetItem(loaded[c], job[c].key, job[c].val)

ConcFiles == {MissingFile, RegularFile(JsonDumps(PyDict(ExampleFile)))}

ConcStart ==
  /\ dirExists = TRUE
  /\ locked = FALSE
  /\ file \in ConcFiles
  /\ CallInit
  /\ ConcInit
  /\ ToastInit
  /\ OverlayInit
  /\ parentSize = [w |-> 800, h |-> 600]
  /\ EditorInit

\* settings = cls.load() of a caller entering set(key, value)
SetLoads(c) ==
  /\ pc[c] = "idle"
  /\ \E key \in InputKeys, value \in InputVals :
       job' = [job EXCEPT ![c] = [key |-> key, val |-> value]]
  /\ loaded' = [loaded EXCEPT ![c] = LoadCall(Fs).settings]
  /\ missed' = [missed EXCEPT ![c] = {}]
  /\ pc' = [pc EXCEPT ![c] = "loaded"]
  /\ UNCHANGED <<dirExists, locked, file, cRaised, lastSave, callVars, guiVars>>

\* settings[key] = value; cls.save(settings) of a caller in set()
SetSaves(c) ==
  /\ pc[c] = "loaded"
  /\ LET s == SaveCall(Fs, Modified(c))
     IN  /\ Installed(s.fs)
         /\ cRaised' = [cRaised EXCEPT ![c] = s.raised]
         /\ lastSave' =
              IF s.raised THEN lastSave
              ELSE [who |-> c, written |-> Modified(c),
                    dropped |-> {u \in missed[c] : u.key # job[c].key}]
         /\ missed' =
              [d \in Callers |->
                 IF d # c /\ pc[d] = "loaded" /\ ~s.raised
                   THEN missed[d] \cup {job[c]} ELSE missed[d]]
  /\ pc' = [pc EXCEPT ![c] = "done"]
  /\ UNCHANGED <<job, loaded, callVars, guiVars>>

ConcNext == \E c \in Callers : SetLoads(c) \/ SetSaves(c)

SpecConc == ConcStart /\ [][ConcNext]_vars

(***************************************************************************)
(* CardEditorPage and Worker (src/gui/yoto_up_gui/pages/card_editor.py)    *)
(***************************************************************************)
\* texts of the title field
Titles == {"", " ", "Tale"}

\* str.strip() on the texts of the title field
Strip(t) == IF t = " " THEN "" ELSE t

\* cards the library hands to edit_card: one with an ID and a cover, one
\* with neither
LibraryCards ==
  {[none |-> FALSE, title |-> "Tale", cardId |-> "c1", cover |-> "old.png"],
   [none |-> FALSE, title |-> "Tale", cardId |-> "", cover |-> ""]}

\* paths the file dialog returns; "" when it was cancelled
CoverPaths == {"", "new.png"}

\* widgets whose change signals are connected to _mark_dirty
TrackedWidgets == {"title", "chapter_tree"}

\* mutant of MarkDirty: _populating is not looked at
MarkDirtyAlways(p, d) == TRUE

\* _mark_dirty
MarkDirty(p, d) == IF ~p THEN TRUE ELSE d

\* mutant of BuildCardFromForm: the cardId is not preserved
BuildCardFromFormDropsId ==
  [title |-> Strip(title),
   cover |-> IF coverImagePath # "" THEN coverImagePath
             ELSE IF ~editingCard.none /\ editingCard.cover # ""
                    THEN editingCard.cover
                    ELSE "",
   cardId |-> ""]

\* _build_card_from_form: the stripped title, the chosen cover image or
\* else the edited card's cover, and the edited card's cardId if it has one
BuildCardFromForm ==
  [title |-> Strip(title),
   cover |-> IF coverImagePath # "" THEN coverImagePath
             ELSE IF ~editingCard.none /\ editingCard.cover # ""
                    THEN editingCard.cover
                    ELSE "",
   cardId |-> IF ~editingCard.none /\ editingCard.cardId # ""
                THEN editingCard.cardId
                ELSE ""]

\* what the external call does with a card: it returns the saved card, which
\* keeps its ID or is given one (or none), or it raises with a message
CallOutcomes(sent) ==
  {[kind |-> "returned", cardId |-> id, msg |-> ""] :
      id \in IF sent # "" THEN {sent} ELSE {"new1", ""}}
  \cup {[kind |-> "raised", cardId |-> "", msg |-> "timeout"]}

\* mutant of RunEmits: the exception is swallowed
RunEmitsNothingOnError(outcome) ==
  IF outcome.kind = "returned"
    THEN <<[sig |-> "finished", cardId |-> outcome.cardId, msg |-> ""]>>
    ELSE <<>>

\* Worker.run: finished.emit(result) if fn returned, error.emit(str(e)) if
\* it raised
RunEmits(outcome) ==
  IF outcome.kind = "returned"
    THEN <<[sig |-> "finished", cardId |-> outcome.cardId, msg |-> ""]>>
    ELSE <<[sig |-> "error", cardId |-> "", msg |-> outcome.msg]>>

\* the form fields that Cancel may reset
Snapshot ==
  [title |-> title, editingCard |-> editingCard,
   coverImagePath |-> coverImagePath, dirty |-> dirty]

\* the page took a step
EditorDid(u) ==
  /\ ui' = u
  /\ UNCHANGED <<storeVars, toastVars, overlayVars>>

\* set_client(client)
SetClient ==
  /\ ~dialog.open
  /\ ~client
  /\ client' = TRUE
  /\ UNCHANGED <<formVars, toastCallback, saveEnabled, workers, uiQueue,
                 dialog, cardSaved>>
  /\ EditorDid([h |-> "set_client"])

\* set_toast_callback(callback)
SetToastCallback ==
  /\ ~dialog.open
  /\ ~toastCallback
  /\ toastCallback' = TRUE
  /\ UNCHANGED <<formVars, client, saveEnabled, workers, uiQueue, dialog,
                 cardSaved>>
  /\ EditorDid([h |-> "set_toast_callback"])

\* the user changes the title or the chapter tree: the change signal
\* calls _mark_dirty
UserEdits ==
  /\ ~dialog.open
  /\ \E widget \in TrackedWidgets :
       /\ IF widget = "title"
            THEN \E t \in Titles \ {title} : title' = t
            ELSE UNCHANGED title
       /\ EditorDid([h |-> "edit", widget |-> widget])
  /\ dirty' = MarkDirty(populating, dirty)
  /\ since' = [since EXCEPT !.changed = TRUE]
  /\ UNCHANGED <<editingCard, coverImagePath, populating>>
  /\ UNCHANGED <<client, toastCallback, saveEnabled, workers, uiQueue, dialog,
                 cardSaved>>

\* _choose_cover_image
ChooseCoverImage ==
  /\ ~dialog.open
  /\ \E path \in CoverPaths :
       /\ IF path # ""
            THEN /\ coverImagePath' = path
                 /\ dirty' = MarkDirty(populating, dirty)
                 /\ since' = [since EXCEPT !.coverChosen = TRUE,
                                            !.changed = TRUE]
            ELSE UNCHANGED <<coverImagePath, dirty, since>>
       /\ EditorDid([h |-> "choose_cover", path |-> path])
  /\ UNCHANGED <<title, editingCard, populating>>
  /\ UNCHANGED <<client, toastCallback, saveEnabled, workers, uiQueue, dialog,
                 cardSaved>>

\* the form after new_card(): the change signals of the cleared widgets
\* arrive while _populating is true
NewCardForm ==
  /\ title' = ""
  /\ editingCard' = NoCard
  /\ coverImagePath' = ""
  /\ populating' = FALSE
  /\ dirty' = FALSE
  /\ since' = SinceNewCard

\* _dirty after the change signals that fire while the form is populated,
\* between self._populating = True and self._populating = False
Populated == MarkDirty(TRUE, dirty)

\* new_card()
NewCard ==
  /\ ~dialog.open
  /\ NewCardForm
  /\ UNCHANGED <<client, toastCallback, saveEnabled, workers, uiQueue, dialog,
                 cardSaved>>
  /\ EditorDid([h |-> "new_card", wasDirty |-> dirty,
                signalled |-> Populated])

\* edit_card(card): _cover_image_path is left as it is
EditCard ==
  /\ ~dialog.open
  /\ \E card \in LibraryCards :
       /\ editingCard' = card
       /\ title' = card.title
       /\ since' = [by |-> "edit_card", cardId |-> card.cardId,
                    cover |-> card.cover, coverChosen |-> FALSE,
                    changed |-> FALSE]
  /\ populating' = FALSE
  /\ dirty' = FALSE
  /\ UNCHANGED coverImagePath
  /\ UNCHANGED <<client, toastCallback, saveEnabled, workers, uiQueue, dialog,
                 cardSaved>>
  /\ EditorDid([h |-> "edit_card", wasDirty |-> dirty,
                signalled |-> Populated])

\* a Worker as _on_save creates it; of the card in its arguments the model
\* keeps the cardId, which is what the outcome of the call depends on
NewWorker(card) ==
  [sent |-> card.cardId, st |-> "started", cardId |-> "", msg |-> "",
   emitted |-> <<>>, handled |-> <<>>, report |-> <<>>]

\* mutant of SaveButtonWhileSaving: the button is left enabled
SaveButtonLeftEnabled == TRUE

\* _on_save: self._save_btn.setEnabled(False) before the worker starts
SaveButtonWhileSaving == FALSE

\* _on_save, which only a click on the enabled Save button calls
OnSave ==
  /\ ~dialog.open
  /\ saveEnabled
  /\ Len(workers) < MaxSaves
  /\ IF Strip(title) = ""
       THEN /\ UNCHANGED <<saveEnabled, workers, since>>
            /\ EditorDid([h |-> "save", outcome |-> "title_required"])
       ELSE IF ~client
       THEN /\ UNCHANGED <<saveEnabled, workers, since>>
            /\ EditorDid([h |-> "save", outcome |-> "not_connected"])
       ELSE /\ saveEnabled' = SaveButtonWhileSaving
            /\ workers' = Append(workers, NewWorker(BuildCardFromForm))
            /\ since' = [since EXCEPT !.changed = FALSE]
            /\ EditorDid([h |-> "save", outcome |-> "started",
                          card |-> BuildCardFromForm])
  /\ UNCHANGED <<fieldVars, client, toastCallback, uiQueue, dialog, cardSaved>>

\* Worker.run on the worker's thread: the external call returns or raises,
\* and the signal emitted is queued for the UI thread
WorkerRuns ==
  \E w \in DOMAIN workers :
    /\ workers[w].st = "started"
    /\ \E outcome \in CallOutcomes(workers[w].sent) :
         LET sigs == RunEmits(outcome)
         IN  /\ workers' = [workers EXCEPT ![w].st = outcome.kind,
                                           ![w].cardId = outcome.cardId,
                                           ![w].msg = outcome.msg,
                                           ![w].emitted = sigs]
             /\ uiQueue' = uiQueue \o
                  [n \in DOMAIN sigs |->
                     [w |-> w, sig |-> sigs[n].sig, cardId |-> sigs[n].cardId,
                      msg |-> sigs[n].msg]]
    /\ UNCHANGED <<formVars, client, toastCallback, saveEnabled, dialog,
                   cardSaved>>
    /\ EditorDid([h |-> "run", w |-> w])

\* mutant of CardSavedOnError: the error handler emits card_saved too
CardSavedOnErrorEmits(msg) == <<"">>

\* _on_save_error emits no card_saved
CardSavedOnError(msg) == <<>>

\* _on_save_finished: self.card_saved.emit(saved_card.cardId or "")
CardSavedOnFinished(cardId) == <<cardId>>

\* _on_save_error: the toast callback if set, else QMessageBox.critical
ErrorReport(callback) ==
  IF callback THEN <<"toast_error">> ELSE <<"critical_box">>

\* _on_save_finished(saved_card)
OnSaveFinished(s) ==
  /\ saveEnabled' = TRUE
  /\ dirty' = FALSE
  /\ workers' = [workers EXCEPT
        ![s.w].handled = Append(@, "_on_save_finished"),
        ![s.w].report = IF toastCallback THEN Append(@, "toast_success") ELSE @]
  /\ cardSaved' = cardSaved \o CardSavedOnFinished(s.cardId)
  /\ UNCHANGED <<title, editingCard, coverImagePath, populating, since>>
  /\ EditorDid([h |-> "save_finished", w |-> s.w, wasDirty |-> dirty])

\* _on_save_error(msg)
OnSaveError(s) ==
  /\ saveEnabled' = TRUE
  /\ workers' = [workers EXCEPT
        ![s.w].handled = Append(@, "_on_save_error"),
        ![s.w].report = @ \o ErrorReport(toastCallback)]
  /\ cardSaved' = cardSaved \o CardSavedOnError(s.msg)
  /\ UNCHANGED formVars
  /\ EditorDid([h |-> "save_error", w |-> s.w, wasDirty |-> dirty])

\* the UI thread's event loop, also the one a modal dialog runs, delivers
\* the oldest queued signal to the slot connected to it
Deliver ==
  /\ uiQueue # <<>>
  /\ uiQueue' = Tail(uiQueue)
  /\ IF Head(uiQueue).sig = "finished"
       THEN OnSaveFinished(Head(uiQueue))
       ELSE OnSaveError(Head(uiQueue))
  /\ UNCHANGED <<client, toastCallback, dialog>>

\* buttons of the "Unsaved Changes" dialog; closing it counts as Cancel
Replies == {"Discard", "Cancel"}

\* mutant of ConfirmResult: any reply lets navigation proceed
ConfirmResultAnyReply(wasDirty, reply) == TRUE

\* confirm_discard: True if the form is not dirty, else whether the reply
\* is Discard
ConfirmResult(wasDirty, reply) == ~wasDirty \/ reply = "Discard"

\* confirm_discard returned to its caller; _on_cancel then resets the form
\* and asks for the library page if it returned True
Confirmed(from, wasDirty, prompted, reply) ==
  LET result == ConfirmResult(wasDirty, reply)
      goes == from = "cancel" /\ result
  IN  /\ IF goes THEN NewCardForm ELSE UNCHANGED formVars
      /\ dialog' = NoDialog
      /\ EditorDid([h |-> from, wasDirty |-> wasDirty, prompted |-> prompted,
                    reply |-> reply, result |-> result,
                    nav |-> IF goes THEN "card_library" ELSE "",
                    pre |-> Snapshot])
      /\ UNCHANGED <<client, toastCallback, saveEnabled, workers, uiQueue,
                     cardSaved>>

\* confirm_discard opens the dialog and waits for the reply
Prompt(from) ==
  /\ dialog' = [open |-> TRUE, from |-> from, wasDirty |-> dirty]
  /\ UNCHANGED <<formVars, client, toastCallback, saveEnabled, workers,
                 uiQueue, cardSaved>>
  /\ EditorDid([h |-> "prompt"])

\* _on_cancel, up to the reply if confirm_discard prompts
OnCancel ==
  /\ ~dialog.open
  /\ IF dirty THEN Prompt("cancel") ELSE Confirmed("cancel", dirty, FALSE, "")

\* confirm_discard(), called when the user navigates away from the page
ConfirmDiscard ==
  /\ ~dialog.open
  /\ IF dirty THEN Prompt("confirm_discard")
              ELSE Confirmed("confirm_discard", dirty, FALSE, "")

\* the user answers the dialog
DialogReply ==
  /\ dialog.open
  /\ \E reply \in Replies :
       Confirmed(dialog.from, dialog.wasDirty, TRUE, reply)

EditorStart ==
  /\ StoreAtRest
  /\ ToastInit
  /\ OverlayInit
  /\ parentSize = [w |-> 800, h |-> 600]
  /\ EditorInit

EditorNext ==
  \/ SetClient
  \/ SetToastCallback
  \/ UserEdits
  \/ ChooseCoverImage
  \/ NewCard
  \/ EditCard
  \/ OnSave
  \/ WorkerRuns
  \/ Deliver
  \/ OnCancel
  \/ ConfirmDiscard
  \/ DialogReply

SpecEditor == EditorStart /\ [][EditorNext]_vars

\* the external call returns and the UI thread's event loop keeps running
SpecEditorFair ==
  SpecEditor /\ WF_vars(WorkerRuns) /\ WF_vars(Deliver)

(***************************************************************************)
(* ToastManager (src/gui/yoto_up_gui/widgets/toast.py)                     *)
(***************************************************************************)
\* durations callers pass to show_toast; 0 starts no timer
Durations == {0, 4000}

RECURSIVE RemoveFirst(_, _)
\* list.remove(toast) guarded by "toast in list": the first occurrence goes
RemoveFirst(list, t) ==
  IF list = <<>> THEN <<>>
  ELSE IF Head(list) = t THEN Tail(list)
  ELSE <<Head(list)>> \o RemoveFirst(Tail(list), t)

RECURSIVE EnforceMaxOffByOne(_)
\* mutant of EnforceMax: while len(self._toasts) > _MAX_TOASTS
EnforceMaxOffByOne(list) ==
  IF Len(list) > MaxToasts
    THEN EnforceMaxOffByOne(RemoveFirst(list, Head(list)))
    ELSE list

RECURSIVE EnforceMax(_)
\* while len(self._toasts) >= _MAX_TOASTS: self._remove_toast(self._toasts[0])
EnforceMax(list) ==
  IF Len(list) >= MaxToasts
    THEN EnforceMax(RemoveFirst(list, Head(list)))
    ELSE list

Listed(list) == {list[n] : n \in DOMAIN list}

\* ToastManager.show_toast(message, toast_type, duration_ms): the oldest
\* toasts are evicted, the new one is appended and shown; showEvent starts
\* its timer when duration_ms > 0.  An evicted toast is hidden but neither
\* deleted nor is its timer stopped.
ShowToast ==
  \E duration \in Durations :
    \E t \in ToastIds :
      /\ tState[t] = "unused"
      /\ \A u \in ToastIds : u < t => tState[u] # "unused"
      /\ LET kept == EnforceMax(toasts)
         IN  /\ toasts' = Append(kept, t)
             /\ tState' = [u \in ToastIds |->
                             CASE u = t -> "shown"
                               [] u # t /\ u \in Listed(toasts) \ Listed(kept) ->
                                    "evicted"
                               [] OTHER -> tState[u]]
             /\ tTimer' = [tTimer EXCEPT ![t] = duration > 0]
      /\ UNCHANGED <<storeVars, overlayVars, editorVars>>

\* _ToastWidget._dismiss: the timer is stopped, the manager drops the toast
\* from its list, the widget is deleted
Dismiss(t) ==
  /\ tTimer' = [tTimer EXCEPT ![t] = FALSE]
  /\ toasts' = IF t \in Listed(toasts) THEN RemoveFirst(toasts, t) ELSE toasts
  /\ tState' = [tState EXCEPT ![t] = "dismissed"]
  /\ UNCHANGED <<storeVars, overlayVars, editorVars>>

\* the auto-dismiss timer of a toast fires
TimerExpires ==
  \E t \in ToastIds : tTimer[t] /\ Dismiss(t)

\* the close button of a visible toast is clicked
CloseClicked ==
  \E t \in ToastIds : tState[t] = "shown" /\ Dismiss(t)

ToastStart ==
  /\ StoreAtRest
  /\ ToastInit
  /\ OverlayInit
  /\ parentSize = [w |-> 800, h |-> 600]
  /\ EditorInit

ToastNext == ShowToast \/ TimerExpires \/ CloseClicked

SpecToast == ToastStart /\ [][ToastNext]_vars

(***************************************************************************)
(* ShortcutOverlay (src/gui/yoto_up_gui/widgets/shortcut_overlay.py)       *)
(***************************************************************************)
\* self._panel.setFixedWidth(520), setMaximumHeight(560)
PanelWidth == 520
PanelMaxHeight == 560

\* self._panel.geometry(): the panel is centred in the overlay and as high
\* as the overlay allows, up to its maximum height
PanelGeometry(g) ==
  LET ph == IF g.h < PanelMaxHeight THEN g.h ELSE PanelMaxHeight
  IN  [x |-> (g.w - PanelWidth) \div 2, y |-> (g.h - ph) \div 2,
       w |-> PanelWidth, h |-> ph]

\* the close button sits at the right end of the panel's header, inside the
\* panel's content margins (24, 20, 24, 20), with fixed size 32 x 32
CloseButtonGeometry(g) ==
  LET p == PanelGeometry(g)
  IN  [x |-> p.x + p.w - 24 - 32, y |-> p.y + 20, w |-> 32, h |-> 32]

\* QRect.contains(pos)
Contains(r, pos) ==
  /\ r.x <= pos.x /\ pos.x < r.x + r.w
  /\ r.y <= pos.y /\ pos.y < r.y + r.h

\* positions of mouse presses, in overlay coordinates
ClickPoints ==
  {[x |-> 10, y |-> 10], [x |-> 139, y |-> 300], [x |-> 140, y |-> 300],
   [x |-> 400, y |-> 300], [x |-> 1000, y |-> 100], [x |-> 640, y |-> 79],
   [x |-> 620, y |-> 50]}

PressedKeys == {"Key_Escape", "Key_Question", "Key_Slash", "Key_A", "Key_Space"}

\* mutant of KeyDismisses: Slash dismisses with or without Ctrl
KeyDismissesAnySlash(key, ctrl) ==
  key \in {"Key_Escape", "Key_Question", "Key_Slash"}

\* keyPressEvent: the keys that call _dismiss
KeyDismisses(key, ctrl) ==
  \/ key = "Key_Escape"
  \/ key = "Key_Question"
  \/ key = "Key_Slash" /\ ctrl

\* mousePressEvent: a press outside the panel calls _dismiss
PressDismisses(g, pos) == ~Contains(PanelGeometry(g), pos)

\* the overlay handled an event
Handled(e) ==
  /\ ovEvent' = e
  /\ ovWas' = ovVisible
  /\ UNCHANGED <<storeVars, toastVars, editorVars>>

\* ShortcutOverlay._show
OvShow ==
  /\ ovGeometry' = parentSize
  /\ ovVisible' = TRUE
  /\ ovFade' = "running"
  /\ ovOpacity' = 0
  /\ ovCloseDown' = FALSE

\* ShortcutOverlay._dismiss: hide(); a hidden button is no longer held
OvDismiss ==
  /\ ovVisible' = FALSE
  /\ ovCloseDown' = FALSE
  /\ UNCHANGED <<ovGeometry, ovFade, ovOpacity>>

OvStays == UNCHANGED <<ovVisible, ovGeometry, ovFade, ovOpacity, ovCloseDown>>

\* ShortcutOverlay.toggle
Toggle ==
  /\ IF ovVisible THEN OvDismiss ELSE OvShow
  /\ UNCHANGED parentSize
  /\ Handled([kind |-> "toggle"])

\* a mouse press while the overlay is visible: the close button takes a
\* press that lands on it and is then held down; every other press is
\* delivered to ShortcutOverlay.mousePressEvent
MousePress ==
  /\ ovVisible
  /\ \E pos \in ClickPoints :
       /\ Contains([x |-> 0, y |-> 0, w |-> ovGeometry.w, h |-> ovGeometry.h],
                   pos)
       /\ IF Contains(CloseButtonGeometry(ovGeometry), pos)
            THEN /\ ovCloseDown' = TRUE
                 /\ UNCHANGED <<ovVisible, ovGeometry, ovFade, ovOpacity>>
            ELSE IF PressDismisses(ovGeometry, pos) THEN OvDismiss ELSE OvStays
       /\ Handled([kind |-> "mouse", pos |-> pos])
  /\ UNCHANGED parentSize

\* ShortcutOverlay.keyPressEvent, delivered while the overlay is visible
KeyPress ==
  /\ ovVisible
  /\ \E key \in PressedKeys, ctrl \in BOOLEAN, shift \in BOOLEAN :
       /\ IF KeyDismisses(key, ctrl) THEN OvDismiss ELSE OvStays
       /\ Handled([kind |-> "key", key |-> key, ctrl |-> ctrl,
                   shift |-> shift])
  /\ UNCHANGED parentSize

\* close_btn.clicked.connect(self._dismiss): the held close button is
\* released, which completes the click
OvCloseClicked ==
  /\ ovVisible
  /\ ovCloseDown
  /\ OvDismiss
  /\ UNCHANGED parentSize
  /\ Handled([kind |-> "close"])

\* the fade-in animation reaches its end value
FadeEnds ==
  /\ ovFade = "running"
  /\ ovFade' = "stopped"
  /\ ovOpacity' = 1
  /\ UNCHANGED <<ovVisible, ovGeometry, parentSize, ovCloseDown>>
  /\ Handled([kind |-> "fade"])

\* the parent is resized and calls parentResizeEvent
ParentResized ==
  /\ \E size \in ParentSizes \ {parentSize} : parentSize' = size
  /\ ovGeometry' = parentSize'
  /\ UNCHANGED <<ovVisible, ovFade, ovOpacity, ovCloseDown>>
  /\ Handled([kind |-> "resize"])

OverlayStart == StoreAtRest /\ ToastInit /\ OverlayInit /\ EditorInit

OverlayNext ==
  \/ Toggle
  \/ MousePress
  \/ KeyPress
  \/ OvCloseClicked
  \/ FadeEnds
  \/ ParentResized

SpecOverlay == OverlayStart /\ [][OverlayNext]_vars

(***************************************************************************)
(* Properties                                                              *)
(***************************************************************************)
\* the default mapping as the specification states it
ExpectedDefaults ==
  [debug |-> PyBool(FALSE), cache_enabled |-> PyBool(FALSE),
   cache_max_age |-> PyInt(0), audio_target_lufs |-> PyFloat(-16)]

\* the file exists and checking, reading or parsing it fails
ReadFails(fs) ==
  /\ fs.file.st # "missing"
  /\ \/ fs.locked
     \/ fs.file.st = "undecodable"
     \/ fs.file.text.k = "invalid"

\* the file can be read and holds valid JSON
HoldsJson(fs) ==
  /\ ~fs.locked
  /\ fs.file.st = "regular"
  /\ fs.file.text.k = "json"

\* the file can be read and holds a JSON object
HoldsObject(fs) == HoldsJson(fs) /\ fs.file.text.doc.j = "object"

\* the object F held by the file, as a mapping of Python values
ObjectOf(fs) ==
  [k \in DOMAIN fs.file.text.doc.members |->
     DecodeValue(fs.file.text.doc.members[k])]

\* what load() returns in the current state and returned when the last call
\* started
LoadNow == LoadCall(Fs).settings
LoadBefore == LoadCall(before).settings

\* C1: whatever the backing file holds and whatever calls came before,
\* load() returns a mapping that contains the four default keys debug,
\* cache_enabled, cache_max_age and audio_target_lufs.
C1_LoadHasDefaultKeys ==
  op = "load" =>
    /\ ~raised
    /\ ret.t = "dict"
    /\ {"debug", "cache_enabled", "cache_max_age", "audio_target_lufs"}
         \subseteq DOMAIN ret.d

\* C1 witness: load() of a file holding the empty object {}
C1_Witness ==
  /\ op = "load"
  /\ before.file = RegularFile(JsonDumps(PyDict(EmptyMap)))
  /\ ~before.locked

\* C2: load() right after a successful save(S) returns S's entries, the
\* defaults for the default keys S lacks, and no other key.
C2_LoadAfterSave ==
  (op = "save" /\ ~raised) =>
    /\ ~LoadCall(Fs).raised
    /\ DOMAIN LoadNow = DOMAIN arg.S \cup DOMAIN ExpectedDefaults
    /\ \A k \in DOMAIN arg.S : LoadNow[k] = arg.S[k]
    /\ \A k \in DOMAIN ExpectedDefaults \ DOMAIN arg.S :
         LoadNow[k] = ExpectedDefaults[k]

\* C2 witness: a successful save of a mapping with one default key and one
\* custom key
C2_Witness ==
  /\ op = "save"
  /\ ~raised
  /\ DOMAIN arg.S = {"cache_max_age", "new_custom_key"}

\* C3: load() never raises; when checking, reading or parsing the file
\* fails it returns exactly the default mapping.
C3_LoadNeverRaises ==
  op = "load" =>
    /\ ~raised
    /\ ReadFails(before) => ret = PyDict(ExpectedDefaults)

\* C3 witness: load() of a file holding the text "not valid json"
C3_Witness ==
  /\ op = "load"
  /\ ~before.locked
  /\ before.file = RegularFile(InvalidText("not valid json"))

\* C4: when the file holds valid JSON that is not an object, load() returns
\* exactly the default mapping.
C4_NonObjectIgnored ==
  (op = "load" /\ HoldsJson(before) /\ ~HoldsObject(before)) =>
    /\ ~raised
    /\ ret = PyDict(ExpectedDefaults)

\* C4 witness: load() of a file holding [1, 2, 3]
C4_Witness ==
  /\ op = "load"
  /\ ~before.locked
  /\ before.file =
       RegularFile(JsonDumps(PyList(<<PyInt(1), PyInt(2), PyInt(3)>>)))

\* C5: with no backing file load() returns exactly the default mapping and
\* does not create the file.
C5_MissingFileDefaults ==
  (op = "load" /\ before.file.st = "missing") =>
    /\ ~raised
    /\ ret = PyDict(ExpectedDefaults)
    /\ Fs = before
    /\ file.st = "missing"

\* C5 witness: load() with neither the file nor its directory
C5_Witness ==
  /\ op = "load"
  /\ before.file.st = "missing"
  /\ ~before.dirExists

\* C6: when the file holds a JSON object F, load() returns the defaults
\* overridden by F: F's value for every key of F, the default for every
\* default key F lacks, and exactly the keys of the defaults and of F.
C6_ObjectOverridesDefaults ==
  (op = "load" /\ HoldsObject(before)) =>
    /\ ~raised
    /\ ret.t = "dict"
    /\ DOMAIN ret.d = DOMAIN ExpectedDefaults \cup DOMAIN ObjectOf(before)
    /\ \A k \in DOMAIN ObjectOf(before) : ret.d[k] = ObjectOf(before)[k]
    /\ \A k \in DOMAIN ExpectedDefaults \ DOMAIN ObjectOf(before) :
         ret.d[k] = ExpectedDefaults[k]

\* C6 witness: load() of an object that gives a default key a list and a
\* custom key null
C6_Witness ==
  /\ op = "load"
  /\ HoldsObject(before)
  /\ ObjectOf(before) = OddFile

\* C7: after a sequence of successful set calls, get(k, d) returns the value
\* of the most recent set(k, v), whatever d is.
C7_GetAfterSet ==
  (op = "get" /\ arg.key \in DOMAIN lastSet /\ lastSet[arg.key] # NotSet) =>
    /\ ~raised
    /\ ret = lastSet[arg.key]

\* C7 witness: set("cache_max_age", 120), a set of another key, then
\* get("cache_max_age", 0) returning 120
C7_Witness ==
  /\ op = "get"
  /\ arg.key = "cache_max_age"
  /\ arg.val = PyInt(0)
  /\ lastSet["cache_max_age"] = PyInt(120)
  /\ lastSet["new_custom_key"] = PyStr("x")
  /\ ret = PyInt(120)

\* C8: a successful set(k, v) changes only key k: every other key load()
\* reported before is reported after with the same value, and no key other
\* than k appears.
C8_SetFrame ==
  (op = "set" /\ ~raised) =>
    /\ DOMAIN LoadBefore \subseteq DOMAIN LoadNow
    /\ DOMAIN LoadNow \subseteq DOMAIN LoadBefore \cup {arg.key}
    /\ \A j \in DOMAIN LoadBefore \ {arg.key} : LoadNow[j] = LoadBefore[j]

\* C8 witness: set("new_custom_key", "x") on the example file, which holds
\* a custom key and non-default values
C8_Witness ==
  /\ op = "set"
  /\ ~raised
  /\ arg.key = "new_custom_key"
  /\ arg.val = PyStr("x")
  /\ HoldsObject(before)
  /\ ObjectOf(before) = ExampleFile

\* C9: for a file holding a JSON object F, load() after save(load())
\* returns what load() returned before, custom keys of F included.
C9_RoundTrip ==
  (op = "save" /\ ~raised /\ HoldsObject(before) /\ arg.S = LoadBefore) =>
    /\ LoadNow = LoadBefore
    /\ \A k \in DOMAIN ObjectOf(before) \ DOMAIN ExpectedDefaults :
         k \in DOMAIN LoadNow /\ LoadNow[k] = ObjectOf(before)[k]

\* C9 witness: save(load()) on the example file
C9_Witness ==
  /\ op = "save"
  /\ ~raised
  /\ HoldsObject(before)
  /\ ObjectOf(before) = ExampleFile
  /\ arg.S = LoadBefore

\* C10: a successful save(S) leaves a file holding exactly the keys and
\* values of S; a key the file held before and S lacks is gone, and load()
\* reports it only if it is a default key, with its default value.
C10_SaveReplaces ==
  (op = "save" /\ ~raised) =>
    /\ HoldsObject(Fs)
    /\ ObjectOf(Fs) = arg.S
    /\ \A k \in DOMAIN LoadNow \ DOMAIN arg.S :
         k \in DOMAIN ExpectedDefaults /\ LoadNow[k] = ExpectedDefaults[k]

\* C10 witness: a successful save(S) over the example file with S lacking
\* its custom key and its debug entry
C10_Witness ==
  /\ op = "save"
  /\ ~raised
  /\ HoldsObject(before)
  /\ ObjectOf(before) = ExampleFile
  /\ DOMAIN arg.S = {"cache_max_age"}

\* the keys and values of the object the file held when the last call
\* started; no keys when it held no readable object
ObjectBefore == IF HoldsObject(before) THEN ObjectOf(before) ELSE EmptyMap

\* C11: the file a successful set(k, v) writes holds the full merged key
\* set: every default key, every key of the object the file held before,
\* and k with value v; on a missing or corrupt file, the four defaults with
\* their default values plus k.
C11_SetWritesMerged ==
  (op = "set" /\ ~raised) =>
    /\ HoldsObject(Fs)
    /\ DOMAIN ObjectOf(Fs) =
         DOMAIN ExpectedDefaults \cup DOMAIN ObjectBefore \cup {arg.key}
    /\ ObjectOf(Fs)[arg.key] = arg.val
    /\ \A j \in DOMAIN ObjectBefore \ {arg.key} :
         ObjectOf(Fs)[j] = ObjectBefore[j]
    /\ \A j \in DOMAIN ExpectedDefaults \ (DOMAIN ObjectBefore \cup {arg.key}) :
         ObjectOf(Fs)[j] = ExpectedDefaults[j]

\* C11 witness: the first set on a file that holds invalid JSON
C11_Witness ==
  /\ op = "set"
  /\ ~raised
  /\ before.file = RegularFile(InvalidText("not valid json"))
  /\ arg.key = "new_custom_key"

\* C12: a failure to create the directory or to write the file makes save
\* and set raise to the caller and leaves the file as it was; load and get
\* never raise.
C12_WriteFailurePropagates ==
  /\ (op \in {"save", "set"} /\ before.locked) => (raised /\ Fs = before)
  /\ (op \in {"load", "get"}) => ~raised

\* C12 witness: set fails where neither the directory can be created nor
\* the file written
C12_Witness ==
  /\ op = "set"
  /\ raised
  /\ before.locked
  /\ ~before.dirExists

\* C13: save(S) with no parent directory creates the directory, succeeds,
\* and leaves a file that load() reads back as S merged over the defaults.
C13_SaveCreatesDirectory ==
  (op = "save" /\ ~before.dirExists /\ ~before.locked) =>
    /\ ~raised
    /\ dirExists
    /\ HoldsObject(Fs)
    /\ ObjectOf(Fs) = arg.S
    /\ DOMAIN LoadNow = DOMAIN ExpectedDefaults \cup DOMAIN arg.S
    /\ \A k \in DOMAIN LoadNow :
         LoadNow[k] = IF k \in DOMAIN arg.S THEN arg.S[k] ELSE ExpectedDefaults[k]

\* C13 witness: a save of a two-key mapping with no parent directory
C13_Witness ==
  /\ op = "save"
  /\ ~raised
  /\ ~before.dirExists
  /\ dirExists
  /\ DOMAIN arg.S = {"debug", "new_custom_key"}

\* C14: get(key, default) returns what the file holds when get is called:
\* the file object's value for key, else the default value of a default
\* key, else the caller's default; a value read before the file changed is
\* never returned again.
C14_GetReadsFile ==
  op = "get" =>
    /\ ~raised
    /\ ret = CASE arg.key \in DOMAIN ObjectBefore -> ObjectBefore[arg.key]
               [] arg.key \notin DOMAIN ObjectBefore
                    /\ arg.key \in DOMAIN ExpectedDefaults ->
                    ExpectedDefaults[arg.key]
               [] OTHER -> arg.val

\* C14 witness: get("custom_key") returned "preserved", the file was
\* changed, and the next get("custom_key", d) returns d
C14_Witness ==
  /\ op = "get"
  /\ stale.key = "custom_key"
  /\ stale.ret = PyStr("preserved")
  /\ arg.key = "custom_key"
  /\ ret = arg.val

\* C15: with two callers in set() no call raises, the file always holds
\* exactly what the last save wrote, and an update saved between the last
\* writer's load and its save is dropped: the file has for that key what
\* the last writer loaded, or no entry when it loaded none.
C15_LastWriteWins ==
  /\ \A c \in Callers : ~cRaised[c]
  /\ lastSave.who # "" =>
       /\ HoldsObject(Fs)
       /\ ObjectOf(Fs) = lastSave.written
       /\ \A u \in lastSave.dropped :
            IF u.key \in DOMAIN loaded[lastSave.who]
              THEN ObjectOf(Fs)[u.key] = loaded[lastSave.who][u.key]
              ELSE u.key \notin DOMAIN ObjectOf(Fs)

\* C15 witness: B loaded before A saved new_custom_key = "x" and saved
\* after it; both calls returned and the file has no new_custom_key
C15_Witness ==
  /\ pc = [c \in Callers |-> "done"]
  /\ job["A"] = [key |-> "new_custom_key", val |-> PyStr("x")]
  /\ job["B"].key = "cache_max_age"
  /\ lastSave.who = "B"
  /\ job["A"] \in lastSave.dropped
  /\ HoldsObject(Fs)
  /\ "new_custom_key" \notin DOMAIN ObjectOf(Fs)
  /\ \A c \in Callers : ~cRaised[c]

\* C17: the managed list holds at most 5 toasts, holds no toast twice,
\* and holds only toasts that were shown and neither dismissed nor evicted.
C17_ToastListBounded ==
  /\ Len(toasts) <= 5
  /\ \A m, n \in DOMAIN toasts : m # n => toasts[m] # toasts[n]
  /\ \A n \in DOMAIN toasts : tState[toasts[n]] = "shown"

\* C17 witness: five toasts are listed after one was evicted and another
\* dismissed
C17_Witness ==
  /\ Len(toasts) = 5
  /\ \E t \in ToastIds : tState[t] = "evicted"
  /\ \E t \in ToastIds : tState[t] = "dismissed"

\* C18: the overlay starts hidden; toggle() inverts its visibility; while
\* visible it is hidden by Escape, by ?, by Ctrl+/ and by a mouse press
\* outside the panel, and stays visible on a press inside the panel, on
\* Slash without Ctrl and on any other key.
C18_OverlayDismissal ==
  /\ ovEvent.kind = "init" => ~ovVisible
  /\ ovEvent.kind = "toggle" => ovVisible = ~ovWas
  /\ (ovEvent.kind = "key" /\ ovWas) =>
       ovVisible = ~(\/ ovEvent.key \in {"Key_Escape", "Key_Question"}
                     \/ ovEvent.key = "Key_Slash" /\ ovEvent.ctrl)
  /\ (ovEvent.kind = "mouse" /\ ovWas) =>
       ovVisible = (/\ 2 * ovEvent.pos.x >= ovGeometry.w - 520
                    /\ 2 * ovEvent.pos.x < ovGeometry.w + 520
                    /\ 2 * ovEvent.pos.y >= ovGeometry.h - 560
                    /\ 2 * ovEvent.pos.y < ovGeometry.h + 560)

\* C18 witness: a press on the close button, inside the panel, left the
\* overlay visible
C18_Witness ==
  /\ ovEvent = [kind |-> "mouse", pos |-> [x |-> 620, y |-> 50]]
  /\ ovGeometry = [w |-> 800, h |-> 600]
  /\ ovCloseDown
  /\ ovWas
  /\ ovVisible

\* every worker that ran emitted the one signal that matches what the call
\* did, the UI thread ran at most the slot of that signal, and a signal
\* that was emitted and not yet handled is waiting in the UI thread's queue
OneOutcome ==
  \A w \in DOMAIN workers :
    LET k == workers[w]
    IN  /\ k.st = "started" => k.emitted = <<>> /\ k.handled = <<>>
        /\ k.st = "returned" =>
             /\ k.emitted =
                  <<[sig |-> "finished", cardId |-> k.cardId, msg |-> ""]>>
             /\ k.handled \in {<<>>, <<"_on_save_finished">>}
        /\ k.st = "raised" =>
             /\ k.emitted = <<[sig |-> "error", cardId |-> "", msg |-> k.msg]>>
             /\ k.handled \in {<<>>, <<"_on_save_error">>}
        /\ (k.st # "started" /\ k.handled = <<>>) =>
             \E n \in DOMAIN uiQueue : uiQueue[n].w = w

\* C16: a run of the Worker delivers exactly one outcome, finished with the
\* result if the call returned and error with the message if it raised,
\* never both and never neither; every save started is eventually followed
\* by exactly one of _on_save_finished and _on_save_error, provided the
\* external call returns.
C16_ExactlyOneOutcome ==
  /\ []OneOutcome
  /\ \A w \in 1 .. MaxSaves :
       (w \in DOMAIN workers) ~>
         (w \in DOMAIN workers /\ Len(workers[w].handled) = 1)

\* C16 witness: one save was followed by _on_save_error and another by
\* _on_save_finished
C16_Witness ==
  /\ \E w \in DOMAIN workers : workers[w].handled = <<"_on_save_error">>
  /\ \E w \in DOMAIN workers : workers[w].handled = <<"_on_save_finished">>

\* C19: card_saved is emitted with the saved card's ID exactly once per
\* successful save and never for a failed one; _on_save_error reports the
\* failure through the toast callback or, when none is set, a critical
\* message box.
C19_CardSavedOncePerSuccess ==
  LET done == SelectSeq(workers,
                        LAMBDA k : k.handled = <<"_on_save_finished">>)
  IN  /\ cardSaved = [n \in DOMAIN done |-> done[n].cardId]
      /\ \A w \in DOMAIN workers :
           workers[w].handled = <<"_on_save_finished">> =>
             workers[w].st = "returned"
      /\ ui.h = "save_error" =>
           /\ workers[ui.w].st = "raised"
           /\ workers[ui.w].report =
                <<IF toastCallback THEN "toast_error" ELSE "critical_box">>

\* C19 witness: a save that failed was reported in a message box and a
\* later one emitted card_saved with the ID the server gave the card
C19_Witness ==
  /\ cardSaved = <<"new1">>
  /\ \E w \in DOMAIN workers :
       /\ workers[w].handled = <<"_on_save_error">>
       /\ workers[w].report = <<"critical_box">>

\* C20: confirm_discard returns True without prompting when the form is not
\* dirty, and when dirty prompts and returns True exactly on Discard;
\* _on_cancel resets the form and emits navigate_to("card_library") iff it
\* returned True, and otherwise leaves form, dirty flag and navigation alone.
C20_CancelGuarded ==
  ui.h \in {"cancel", "confirm_discard"} =>
    /\ ~ui.wasDirty => ~ui.prompted /\ ui.result
    /\ ui.wasDirty => ui.prompted /\ (ui.result <=> ui.reply = "Discard")
    /\ (ui.h = "cancel" /\ ui.result) =>
         /\ title = "" /\ editingCard = [none |-> TRUE]
         /\ coverImagePath = "" /\ ~dirty /\ ~populating
         /\ ui.nav = "card_library"
    /\ (ui.h = "cancel" /\ ~ui.result) =>
         /\ ui.nav = ""
         /\ ui.pre = [title |-> title, editingCard |-> editingCard,
                      coverImagePath |-> coverImagePath, dirty |-> dirty]

\* C20 witness: Cancel on a dirty form was answered with Cancel and the
\* form kept its title
C20_Witness ==
  /\ ui.h = "cancel"
  /\ ui.wasDirty
  /\ ui.reply = "Cancel"
  /\ title = "Tale"
  /\ dirty

\* C21: the card built from the form carries the edited card's cardId iff
\* the form was last populated by edit_card with a card that has a cardId;
\* after new_card a built card has no cardId, also after a successful save
\* of a new card, so a second save submits a second card without cardId.
C21_CardIdPreserved ==
  (ui.h = "save" /\ ui.outcome = "started") =>
    /\ ui.card.cardId = IF since.by = "edit_card" THEN since.cardId ELSE ""
    /\ workers[Len(workers)].sent = ui.card.cardId

\* C21 witness: a new card was saved and given an ID by the server, and the
\* next save from the same form submitted a card without cardId again
C21_Witness ==
  /\ Len(workers) >= 2
  /\ workers[1].sent = ""
  /\ workers[1].handled = <<"_on_save_finished">>
  /\ workers[1].cardId = "new1"
  /\ since.by = "new_card"
  /\ ui.h = "save"
  /\ ui.outcome = "started"
  /\ ui.card.cardId = ""
  /\ workers[2].sent = ""

\* the save workers whose outcome was not yet delivered to the page
InFlight == {w \in DOMAIN workers : workers[w].handled = <<>>}

\* C22: at most one save worker is in flight at a time; the Save button is
\* disabled in every state between a worker's start and the delivery of its
\* outcome, and is enabled again after a success and after an error.
C22_OneSaveInFlight ==
  /\ Cardinality(InFlight) <= 1
  /\ saveEnabled <=> InFlight = {}
  /\ ui.h \in {"save_finished", "save_error"} => saveEnabled

\* C22 witness: the button is enabled again after a failed save that
\* followed a successful one
C22_Witness ==
  /\ ui.h = "save_error"
  /\ saveEnabled
  /\ Len(workers) = 2
  /\ workers[1].handled = <<"_on_save_finished">>
  /\ workers[2].handled = <<"_on_save_error">>

\* C23: the dirty flag is true whenever the form holds changes that were
\* not saved: a change the user made since the form was populated or last
\* submitted, so also one made while a save was in flight that then
\* succeeded, keeps the form dirty; a failed save does not clear the flag.
C23_DirtyTracksUnsaved ==
  /\ since.changed => dirty
  /\ ui.h = "save_error" => dirty = ui.wasDirty

\* C23 witness: a save succeeded after the user changed the form while it
\* was in flight, and the form is not dirty
C23_Witness ==
  /\ ui.h = "save_finished"
  /\ ui.wasDirty
  /\ since.changed
  /\ ~dirty

\* C24: change signals that fire while _populating is true do not set
\* _dirty; right after new_card() and edit_card(card), from any prior state,
\* _dirty and _populating are false; a later change by the user to a tracked
\* widget or to the chapter tree sets _dirty.
C24_PopulationNeverDirties ==
  /\ ui.h \in {"new_card", "edit_card"} =>
       /\ ui.signalled = ui.wasDirty
       /\ ~dirty
       /\ ~populating
  /\ (ui.h = "cancel" /\ ui.result) => ~dirty /\ ~populating
  /\ ui.h = "edit" => dirty

\* C24 witness: edit_card on a dirty form left it clean, and the signals of
\* the population had not touched the flag
C24_Witness ==
  /\ ui.h = "edit_card"
  /\ ui.wasDirty
  /\ ui.signalled
  /\ ~dirty
  /\ ~populating

\* C25: a card built after edit_card, when the user chose no cover image
\* since, carries the loaded card's own cover; a cover image path chosen
\* before edit_card is never attached to the newly loaded card.
C25_CoverOfLoadedCard ==
  (/\ ui.h = "save"
   /\ ui.outcome = "started"
   /\ since.by = "edit_card"
   /\ ~since.coverChosen) => ui.card.cover = since.cover

\* C25 witness: a card loaded with its own cover was submitted with the
\* cover image chosen before it was loaded
C25_Witness ==
  /\ ui.h = "save"
  /\ ui.outcome = "started"
  /\ since.by = "edit_card"
  /\ ~since.coverChosen
  /\ since.cover = "old.png"
  /\ ui.card.cover = "new.png"

====
